---- MODULE Spec2Model ----
(***************************************************************************)
(* A model of the e-commerce record-keeping service of src/app.py: the     *)
(* four tables (users, products, orders, order_product), the constraints   *)
(* the store enforces on them, and the ten request handlers that write.    *)
(*                                                                         *)
(* Every handler is a pure operator h(snap, cur, ...): `snap` is the store *)
(* as the handler's reads saw it and `cur` is the store its commit is      *)
(* applied to.  A request served alone has snap = cur: SpecUsers and       *)
(* SpecProducts are the user and the product manager with every body, and  *)
(* Spec the order manager.  SpecConc runs the handlers of several clients  *)
(* with the reads and the commit of a request as two steps, as independent *)
(* store connections do.                                                   *)
(***************************************************************************)
EXTENDS Integers, Sequences, FiniteSets, Bags, TLC

VARIABLES db,    \* the persistent store: tables and autoincrement counters
          last,  \* the last request answered and its status code
          txn    \* SpecConc: per client, the request in flight and its snapshot

vars == <<db, last, txn>>

(***************************************************************************)
(* Bounds of the model.                                                    *)
(***************************************************************************)
MaxUsers == 2      \* users ever created
MaxProducts == 1   \* products ever created
MaxOrders == 2     \* orders ever created
NClients == 2      \* concurrent connections in SpecConc
MaxConcRows == 1   \* rows ever created in each table in SpecConc

Clients == 1..NClients

(***************************************************************************)
(* Status codes of the responses.                                          *)
(***************************************************************************)
OK == 200
CREATED == 201
BAD_REQUEST == 400
NOT_FOUND == 404
CONFLICT == 409
SERVER_ERROR == 500   \* an exception no handler catches (Flask's answer)

(***************************************************************************)
(* JSON values of the request bodies.  A body is a function from the keys  *)
(* it carries to their values: a key that is not in its DOMAIN is missing. *)
(***************************************************************************)
Has(data, key) == key \in DOMAIN data

\* a key with one of the values, or the key missing
Opt(key, values) == {[k \in {} |-> 0]} \cup {key :> v : v \in values}

\* a JSON number n, a string that spells the number n, a string that spells none
Num(n) == [kind |-> "number", val |-> n]
NumStr(n) == [kind |-> "string", val |-> n]
NotANumber == [kind |-> "text", val |-> 0]

\* email text, one token per element
AnnEmail == <<"ann", "@", "x", ".", "com">>
BobEmail == <<"bob", "@", "x", ".", "com">>
NoAtEmail == <<"ann", "x", ".", "com">>

\* order_date text
IsoText == "2026-02-28T15:30:00"
NotADate == "not-a-date"
\* the clock's reading, datetime.utcnow
UtcNow == <<2026, 11, 6, 0, 0, 0>>

(***************************************************************************)
(* The schemas' field rules (marshmallow).                                 *)
(***************************************************************************)
\* validate.Length(min=1)
LengthMin1(text) == Len(text) >= 1

\* fields.Email: a user part and a dotted domain part around the last "@"
ValidEmail(text) ==
    /\ \E i \in 1..Len(text) : text[i] = "@"
    /\ LET at == CHOOSE i \in 1..Len(text) :
                    /\ text[i] = "@"
                    /\ \A j \in (i + 1)..Len(text) : text[j] # "@"
           user == SubSeq(text, 1, at - 1)
           domain == SubSeq(text, at + 1, Len(text))
       IN  /\ Len(user) >= 1
           /\ \A j \in 1..Len(user) : user[j] # "@"
           /\ Len(domain) >= 3
           /\ \E j \in 2..(Len(domain) - 1) : domain[j] = "."
           /\ domain[1] # "." /\ domain[Len(domain)] # "."

\* fields.Float: a number, or a string that spells one
IsFloat(v) == v.kind \in {"number", "string"}
ParseFloat(v) == v.val

\* validate.Range(min=0)
RangeMin0(x) == x >= 0

\* datetime.fromisoformat: the datetime the text spells, or ValueError
IsIsoFormat(text) == text = IsoText
FromIsoFormat(text) == <<2026, 2, 28, 15, 30, 0>>

\* UserSchema.load(data, partial): required fields unless partial, and the
\* rule of every field present
UserSchemaValid(data, partial) ==
    /\ partial \/ {"name", "address", "email"} \subseteq DOMAIN data
    /\ Has(data, "name") => LengthMin1(data.name)
    /\ Has(data, "address") => LengthMin1(data.address)
    /\ Has(data, "email") => ValidEmail(data.email)

\* ProductSchema.load(data, partial)
ProductSchemaValid(data, partial) ==
    /\ partial \/ {"product_name", "price"} \subseteq DOMAIN data
    /\ Has(data, "product_name") => LengthMin1(data.product_name)
    /\ Has(data, "price") => IsFloat(data.price) /\ RangeMin0(ParseFloat(data.price))

\* Python's truth value of data.get(key): None (a missing key), the number 0
\* and the empty string are false
TruthyNumber(data, key) == Has(data, key) /\ data[key] # 0
TruthyText(data, key) == Has(data, key) /\ Len(data[key]) # 0

(***************************************************************************)
(* The store: the tables and the constraints the schema declares.          *)
(* order_product is a bag of <<order_id, product_id>> rows, so that the    *)
(* primary key is a constraint the store checks, not one the               *)
(* representation grants.                                                  *)
(***************************************************************************)
EmptyDb ==
    [users |-> {}, products |-> {}, orders |-> {}, order_product |-> EmptyBag,
     next_user_id |-> 1, next_product_id |-> 1, next_order_id |-> 1]

Ids(table) == {row.id : row \in table}
Row(table, id) == CHOOSE row \in table : row.id = id
Rows(d) == BagToSet(d.order_product)
RowCount(d, r) == IF r \in Rows(d) THEN d.order_product[r] ELSE 0
Without(bag, rs) == [r \in (BagToSet(bag) \ rs) |-> bag[r]]

\* (the column without unique=True)
UniqueEmailUnenforced(d) == TRUE

\* users.email unique=True
UniqueEmailOk(d) ==
    \A u1, u2 \in d.users : u1.email = u2.email => u1 = u2

\* order_product: composite primary key, UniqueConstraint
PrimaryKeyOk(d) == \A r \in Rows(d) : d.order_product[r] = 1

\* (the columns without db.ForeignKey)
ForeignKeysUnenforced(d) == TRUE

\* the three ForeignKey columns
ForeignKeysOk(d) ==
    /\ \A o \in d.orders : o.user_id \in Ids(d.users)
    /\ \A r \in Rows(d) : r[1] \in Ids(d.orders) /\ r[2] \in Ids(d.products)

\* what a flush must satisfy, or the store raises IntegrityError
IntegrityOk(d) == UniqueEmailOk(d) /\ PrimaryKeyOk(d) /\ ForeignKeysOk(d)

Resp(d, s) == [db |-> d, status |-> s]

(***************************************************************************)
(* USER CRUD                                                               *)
(***************************************************************************)
\* the fields a partial load sets on the instance
Merge(row, data) ==
    [k \in DOMAIN row |-> IF k \in DOMAIN data THEN data[k] ELSE row[k]]

create_user(snap, cur, data) ==
    IF ~UserSchemaValid(data, FALSE)
    THEN Resp(cur, SERVER_ERROR)    \* ValidationError, caught nowhere
    ELSE LET user == [id |-> cur.next_user_id, name |-> data.name,
                      address |-> data.address, email |-> data.email]
             new == [cur EXCEPT !.users = @ \cup {user}, !.next_user_id = @ + 1]
         IN  IF IntegrityOk(new)
             THEN Resp(new, CREATED)
             ELSE Resp(cur, CONFLICT)    \* IntegrityError: rollback

\* (update_user keeping the name and address it set when the email conflicts)
update_user_partially(snap, cur, user_id, data) ==
    IF user_id \notin Ids(snap.users) THEN Resp(cur, NOT_FOUND)
    ELSE IF ~UserSchemaValid(data, TRUE) THEN Resp(cur, SERVER_ERROR)
    ELSE LET old == Row(cur.users, user_id)
             named == [cur EXCEPT !.users = (@ \ {old}) \cup
                          {Merge(old, [k \in DOMAIN data \ {"email"} |-> data[k]])}]
             new == [cur EXCEPT !.users = (@ \ {old}) \cup {Merge(old, data)}]
         IN  IF user_id \notin Ids(cur.users) THEN Resp(cur, SERVER_ERROR)
             ELSE IF IntegrityOk(new) THEN Resp(new, OK)
             ELSE Resp(named, CONFLICT)

update_user(snap, cur, user_id, data) ==
    IF user_id \notin Ids(snap.users) THEN Resp(cur, NOT_FOUND)
    ELSE IF ~UserSchemaValid(data, TRUE)
    THEN Resp(cur, SERVER_ERROR)    \* ValidationError, caught nowhere
    ELSE LET seen == Row(snap.users, user_id)
             changed == [k \in {f \in DOMAIN data : data[f] # seen[f]} |-> data[k]]
         IN  IF DOMAIN changed = {} THEN Resp(cur, OK)    \* nothing to flush
             ELSE IF user_id \notin Ids(cur.users)
             THEN Resp(cur, SERVER_ERROR)    \* UPDATE matched no row: StaleDataError
             ELSE LET old == Row(cur.users, user_id)
                      new == [cur EXCEPT !.users = (@ \ {old}) \cup {Merge(old, changed)}]
                  IN  IF IntegrityOk(new)
                      THEN Resp(new, OK)
                      ELSE Resp(cur, CONFLICT)    \* IntegrityError: rollback

\* (delete_user leaving the deleted orders' rows of the secondary table)
delete_user_keeping_rows(snap, cur, user_id) ==
    IF user_id \notin Ids(snap.users) THEN Resp(cur, NOT_FOUND)
    ELSE LET mine == {o \in cur.orders : o.user_id = user_id}
             new == [cur EXCEPT !.users = {u \in @ : u.id # user_id},
                                !.orders = @ \ mine]
         IN  Resp(new, OK)

\* session.delete(user): the cascade deletes the orders the session loaded
\* for the user and, for each, its rows of the secondary table
delete_user(snap, cur, user_id) ==
    IF user_id \notin Ids(snap.users) THEN Resp(cur, NOT_FOUND)
    ELSE LET mine == {o.id : o \in {o \in snap.orders : o.user_id = user_id}}
             rows == {r \in Rows(snap) : r[1] \in mine}
             new == [cur EXCEPT !.users = {u \in @ : u.id # user_id},
                                !.orders = {o \in @ : o.id \notin mine},
                                !.order_product = Without(@, rows)]
         IN  IF ~(rows \subseteq Rows(cur))
             THEN Resp(cur, SERVER_ERROR)    \* DELETE matched no row: StaleDataError
             ELSE IF IntegrityOk(new)
             THEN Resp(new, OK)
             ELSE Resp(cur, SERVER_ERROR)    \* IntegrityError, caught nowhere

(***************************************************************************)
(* PRODUCT CRUD                                                            *)
(***************************************************************************)
\* what the load makes of the body's fields: the price deserialized
Loaded(data) ==
    [k \in DOMAIN data |-> IF k = "price" THEN ParseFloat(data[k]) ELSE data[k]]

\* (create_product without the schema's validate.Range and validate.Length)
create_product_unvalidated(snap, cur, data) ==
    IF ~({"product_name", "price"} \subseteq DOMAIN data /\ IsFloat(data.price))
    THEN Resp(cur, SERVER_ERROR)
    ELSE LET product == [id |-> cur.next_product_id,
                         product_name |-> data.product_name,
                         price |-> ParseFloat(data.price)]
         IN  Resp([cur EXCEPT !.products = @ \cup {product},
                              !.next_product_id = @ + 1], CREATED)

create_product(snap, cur, data) ==
    IF ~ProductSchemaValid(data, FALSE)
    THEN Resp(cur, SERVER_ERROR)    \* ValidationError, caught nowhere
    ELSE LET product == [id |-> cur.next_product_id,
                         product_name |-> data.product_name,
                         price |-> ParseFloat(data.price)]
             new == [cur EXCEPT !.products = @ \cup {product},
                                !.next_product_id = @ + 1]
         IN  IF IntegrityOk(new)
             THEN Resp(new, CREATED)
             ELSE Resp(cur, SERVER_ERROR)    \* IntegrityError, caught nowhere

update_product(snap, cur, product_id, data) ==
    IF product_id \notin Ids(snap.products) THEN Resp(cur, NOT_FOUND)
    ELSE IF ~ProductSchemaValid(data, TRUE)
    THEN Resp(cur, SERVER_ERROR)    \* ValidationError, caught nowhere
    ELSE LET seen == Row(snap.products, product_id)
             changed == [k \in {f \in DOMAIN data : Loaded(data)[f] # seen[f]}
                            |-> Loaded(data)[k]]
         IN  IF DOMAIN changed = {} THEN Resp(cur, OK)    \* nothing to flush
             ELSE IF product_id \notin Ids(cur.products)
             THEN Resp(cur, SERVER_ERROR)    \* UPDATE matched no row: StaleDataError
             ELSE LET old == Row(cur.products, product_id)
                      new == [cur EXCEPT !.products =
                                 (@ \ {old}) \cup {Merge(old, changed)}]
                  IN  IF IntegrityOk(new)
                      THEN Resp(new, OK)
                      ELSE Resp(cur, SERVER_ERROR)

\* session.delete(product): the ORM deletes the rows of the secondary table
\* that the session loaded for the product, then the product
delete_product(snap, cur, product_id) ==
    IF product_id \notin Ids(snap.products) THEN Resp(cur, NOT_FOUND)
    ELSE LET rows == {r \in Rows(snap) : r[2] = product_id}
             new == [cur EXCEPT !.products = {p \in @ : p.id # product_id},
                                !.order_product = Without(@, rows)]
         IN  IF ~(rows \subseteq Rows(cur))
             THEN Resp(cur, SERVER_ERROR)    \* DELETE matched no row: StaleDataError
             ELSE IF IntegrityOk(new)
             THEN Resp(new, OK)
             ELSE Resp(cur, SERVER_ERROR)    \* IntegrityError, caught nowhere

(***************************************************************************)
(* ORDER ENDPOINTS                                                         *)
(***************************************************************************)
create_order(snap, cur, data) ==
    IF ~TruthyNumber(data, "user_id") THEN Resp(cur, BAD_REQUEST)
    ELSE IF data.user_id \notin Ids(snap.users) THEN Resp(cur, NOT_FOUND)
    ELSE IF TruthyText(data, "order_date") /\ ~IsIsoFormat(data.order_date)
    THEN Resp(cur, BAD_REQUEST)    \* ValueError
    ELSE LET order == [id |-> cur.next_order_id, user_id |-> data.user_id,
                       order_date |-> IF TruthyText(data, "order_date")
                                      THEN FromIsoFormat(data.order_date)
                                      ELSE UtcNow]
             new == [cur EXCEPT !.orders = @ \cup {order}, !.next_order_id = @ + 1]
         IN  IF IntegrityOk(new)
             THEN Resp(new, CREATED)
             ELSE Resp(cur, SERVER_ERROR)    \* IntegrityError, caught nowhere

\* (add_product_to_order without the except IntegrityError)
add_product_to_order_uncaught(snap, cur, order_id, product_id) ==
    IF order_id \notin Ids(snap.orders) THEN Resp(cur, NOT_FOUND)
    ELSE IF product_id \notin Ids(snap.products) THEN Resp(cur, NOT_FOUND)
    ELSE IF <<order_id, product_id>> \in Rows(snap) THEN Resp(cur, OK)
    ELSE LET new == [cur EXCEPT !.order_product =
                        @ (+) SetToBag({<<order_id, product_id>>})]
         IN  IF IntegrityOk(new) THEN Resp(new, OK) ELSE Resp(cur, SERVER_ERROR)

\* (add_product_to_order without the `product in order.products` test)
add_product_to_order_unchecked(snap, cur, order_id, product_id) ==
    IF order_id \notin Ids(snap.orders) THEN Resp(cur, NOT_FOUND)
    ELSE IF product_id \notin Ids(snap.products) THEN Resp(cur, NOT_FOUND)
    ELSE LET new == [cur EXCEPT !.order_product =
                        @ (+) SetToBag({<<order_id, product_id>>})]
         IN  IF IntegrityOk(new) THEN Resp(new, OK) ELSE Resp(cur, CONFLICT)

add_product_to_order(snap, cur, order_id, product_id) ==
    IF order_id \notin Ids(snap.orders) THEN Resp(cur, NOT_FOUND)
    ELSE IF product_id \notin Ids(snap.products) THEN Resp(cur, NOT_FOUND)
    ELSE IF <<order_id, product_id>> \in Rows(snap) THEN Resp(cur, OK)
    ELSE LET new == [cur EXCEPT !.order_product =
                        @ (+) SetToBag({<<order_id, product_id>>})]
         IN  IF IntegrityOk(new)
             THEN Resp(new, OK)
             ELSE Resp(cur, CONFLICT)    \* IntegrityError: rollback

\* (remove_product_from_order deleting the product's rows of every order)
remove_product_from_every_order(snap, cur, order_id, product_id) ==
    IF order_id \notin Ids(snap.orders) THEN Resp(cur, NOT_FOUND)
    ELSE IF product_id \notin Ids(snap.products) THEN Resp(cur, NOT_FOUND)
    ELSE IF <<order_id, product_id>> \notin Rows(snap) THEN Resp(cur, OK)
    ELSE Resp([cur EXCEPT !.order_product =
                  Without(@, {r \in Rows(cur) : r[2] = product_id})], OK)

remove_product_from_order(snap, cur, order_id, product_id) ==
    IF order_id \notin Ids(snap.orders) THEN Resp(cur, NOT_FOUND)
    ELSE IF product_id \notin Ids(snap.products) THEN Resp(cur, NOT_FOUND)
    ELSE IF <<order_id, product_id>> \notin Rows(snap) THEN Resp(cur, OK)
    ELSE IF <<order_id, product_id>> \notin Rows(cur)
    THEN Resp(cur, SERVER_ERROR)    \* DELETE matched no row: StaleDataError
    ELSE Resp([cur EXCEPT !.order_product =
                  Without(@, {<<order_id, product_id>>})], OK)

\* GET /orders/<order_id>/products: order.products, one entry per row
get_products_for_order(d, order_id) ==
    [p \in {r[2] : r \in {r \in Rows(d) : r[1] = order_id}}
        |-> d.order_product[<<order_id, p>>]]

(***************************************************************************)
(* The requests.                                                           *)
(***************************************************************************)
UserBodies ==
    {n @@ a @@ e : n \in Opt("name", {"", "Ann", "Bob"}),
                   a \in Opt("address", {"1 Main St", "2 Elm St"}),
                   e \in Opt("email", {AnnEmail, BobEmail, NoAtEmail})}

ProductBodies ==
    {n @@ p : n \in Opt("product_name", {"", "Widget", "Gadget"}),
              p \in Opt("price", {Num(0 - 1), Num(0), Num(5), NumStr(5), NotANumber})}

OrderBodies ==
    {u @@ d : u \in Opt("user_id", 0..MaxUsers),
              d \in Opt("order_date", {"", IsoText, NotADate})}

\* the bodies of the order manager's specification: one valid value a field
\* where the order endpoints do not read it
FewUserBodies ==
    {b \in UserBodies :
        /\ DOMAIN b = {"name", "address", "email"}
        /\ b.name = "Ann" /\ b.address = "1 Main St"
        /\ b.email \in {AnnEmail, BobEmail}}
FewProductBodies ==
    {b \in ProductBodies :
        /\ DOMAIN b = {"product_name", "price"}
        /\ b.product_name = "Widget"
        /\ b.price \in {Num(0 - 1), Num(5)}}
FewOrderBodies ==
    {b \in OrderBodies :
        Has(b, "order_date") => (b.order_date = NotADate /\ DOMAIN b = {"order_date"})}

UserIds == 1..MaxUsers
ProductIds == 1..MaxProducts
OrderIds == 1..MaxOrders

NoData == [none |-> TRUE]
Idle == [op |-> "idle", a |-> 0, b |-> 0, data |-> NoData, snap |-> EmptyDb]

\* by how many rows a request changed each table
Delta(old, new) ==
    [users |-> Cardinality(new.users) - Cardinality(old.users),
     products |-> Cardinality(new.products) - Cardinality(old.products),
     orders |-> Cardinality(new.orders) - Cardinality(old.orders),
     order_product |-> BagCardinality(new.order_product)
                           - BagCardinality(old.order_product)]

Init ==
    /\ db = EmptyDb
    /\ last = [op |-> "none", a |-> 0, b |-> 0, data |-> NoData, status |-> 0,
               delta |-> Delta(EmptyDb, EmptyDb)]
    /\ txn = [c \in Clients |-> Idle]

\* the autoincrement counters stay within the bounds
InBounds(d) ==
    /\ d.next_user_id <= MaxUsers + 1
    /\ d.next_product_id <= MaxProducts + 1
    /\ d.next_order_id <= MaxOrders + 1

(***************************************************************************)
(* A request served alone: its reads and its commit see the same store.    *)
(***************************************************************************)
Answer(op, a, b, data, r) ==
    /\ InBounds(r.db)
    /\ db' = r.db
    /\ last' = [op |-> op, a |-> a, b |-> b, data |-> data, status |-> r.status,
                delta |-> Delta(db, r.db)]
    /\ UNCHANGED txn

CreateUser(data) == Answer("create_user", 0, 0, data, create_user(db, db, data))
UpdateUser(id, data) == Answer("update_user", id, 0, data, update_user(db, db, id, data))
DeleteUser(id) == Answer("delete_user", id, 0, NoData, delete_user(db, db, id))
CreateProduct(data) ==
    Answer("create_product", 0, 0, data, create_product(db, db, data))
UpdateProduct(id, data) ==
    Answer("update_product", id, 0, data, update_product(db, db, id, data))
DeleteProduct(id) == Answer("delete_product", id, 0, NoData, delete_product(db, db, id))
CreateOrder(data) == Answer("create_order", 0, 0, data, create_order(db, db, data))
AddProductToOrder(o, p) ==
    Answer("add_product_to_order", o, p, NoData, add_product_to_order(db, db, o, p))
RemoveProductFromOrder(o, p) ==
    Answer("remove_product_from_order", o, p, NoData,
           remove_product_from_order(db, db, o, p))

\* the user manager, every body
NextUsers ==
    \/ \E data \in UserBodies : CreateUser(data)
    \/ \E id \in UserIds, data \in UserBodies : UpdateUser(id, data)
    \/ \E id \in UserIds : DeleteUser(id)
SpecUsers == Init /\ [][NextUsers]_vars

\* the product manager, every body
NextProducts ==
    \/ \E data \in ProductBodies : CreateProduct(data)
    \/ \E id \in ProductIds, data \in ProductBodies : UpdateProduct(id, data)
    \/ \E id \in ProductIds : DeleteProduct(id)
SpecProducts == Init /\ [][NextProducts]_vars

\* the order manager, with the creates and deletes of the users and
\* products its orders refer to
Next ==
    \/ \E data \in FewUserBodies : CreateUser(data)
    \/ \E id \in UserIds : DeleteUser(id)
    \/ \E data \in FewProductBodies : CreateProduct(data)
    \/ \E id \in ProductIds : DeleteProduct(id)
    \/ \E data \in FewOrderBodies : CreateOrder(data)
    \/ \E o \in OrderIds, p \in ProductIds : AddProductToOrder(o, p)
    \/ \E o \in OrderIds, p \in ProductIds : RemoveProductFromOrder(o, p)
Spec == Init /\ [][Next]_vars

(***************************************************************************)
(* Requests served concurrently, each on its own store connection: Begin   *)
(* is the handler's reads (its transaction's snapshot), Finish its commit  *)
(* against the store as it is by then, and the response.                   *)
(***************************************************************************)
Handle(t, cur) ==
    CASE t.op = "create_user" -> create_user(t.snap, cur, t.data)
      [] t.op = "update_user" -> update_user(t.snap, cur, t.a, t.data)
      [] t.op = "delete_user" -> delete_user(t.snap, cur, t.a)
      [] t.op = "create_product" -> create_product(t.snap, cur, t.data)
      [] t.op = "update_product" -> update_product(t.snap, cur, t.a, t.data)
      [] t.op = "delete_product" -> delete_product(t.snap, cur, t.a)
      [] t.op = "create_order" -> create_order(t.snap, cur, t.data)
      [] t.op = "add_product_to_order" ->
            add_product_to_order(t.snap, cur, t.a, t.b)
      [] t.op = "remove_product_from_order" ->
            remove_product_from_order(t.snap, cur, t.a, t.b)

\* what the handler of a request reads: the rows its queries and the
\* relationships it touches load into the session
View(t, d) ==
    LET us == CASE t.op \in {"update_user", "delete_user"} ->
                      {u \in d.users : u.id = t.a}
                [] t.op = "create_order" ->
                      {u \in d.users : Has(t.data, "user_id") /\ u.id = t.data.user_id}
                [] OTHER -> {}
        ps == CASE t.op \in {"update_product", "delete_product"} ->
                      {p \in d.products : p.id = t.a}
                [] t.op \in {"add_product_to_order", "remove_product_from_order"} ->
                      {p \in d.products : p.id = t.b}
                [] OTHER -> {}
        os == CASE t.op = "delete_user" -> {o \in d.orders : o.user_id = t.a}
                [] t.op \in {"add_product_to_order", "remove_product_from_order"} ->
                      {o \in d.orders : o.id = t.a}
                [] OTHER -> {}
        rs == CASE t.op = "delete_user" -> {r \in Rows(d) : r[1] \in Ids(os)}
                [] t.op = "delete_product" -> {r \in Rows(d) : r[2] = t.a}
                [] t.op \in {"add_product_to_order", "remove_product_from_order"} ->
                      {r \in Rows(d) : r = <<t.a, t.b>>}
                [] OTHER -> {}
    IN  [EmptyDb EXCEPT !.users = us, !.products = ps, !.orders = os,
                        !.order_product = [r \in rs |-> d.order_product[r]]]

ConcProductBodies == {b \in FewProductBodies : b.price = Num(5)}
ConcOrderBodies == {b \in FewOrderBodies : DOMAIN b = {"user_id"}}

Requests ==
    {[op |-> "create_user", a |-> 0, b |-> 0, data |-> d] : d \in FewUserBodies}
    \cup {[op |-> "update_user", a |-> id, b |-> 0, data |-> d] :
             id \in 1..MaxConcRows, d \in FewUserBodies}
    \cup {[op |-> "delete_user", a |-> id, b |-> 0, data |-> NoData] :
             id \in 1..MaxConcRows}
    \cup {[op |-> "create_product", a |-> 0, b |-> 0, data |-> d] :
             d \in ConcProductBodies}
    \cup {[op |-> "update_product", a |-> id, b |-> 0, data |-> d] :
             id \in 1..MaxConcRows, d \in ConcProductBodies}
    \cup {[op |-> "delete_product", a |-> id, b |-> 0, data |-> NoData] :
             id \in 1..MaxConcRows}
    \cup {[op |-> "create_order", a |-> 0, b |-> 0, data |-> d] : d \in ConcOrderBodies}
    \cup {[op |-> o, a |-> oid, b |-> pid, data |-> NoData] :
             o \in {"add_product_to_order", "remove_product_from_order"},
             oid \in 1..MaxConcRows, pid \in 1..MaxConcRows}

\* the requests in flight that may still insert into a table
InFlight(op) == Cardinality({c \in Clients : txn[c].op = op})

Begin(c, req) ==
    /\ txn[c].op = "idle"
    /\ req.op = "create_user" => db.next_user_id + InFlight(req.op) <= MaxConcRows
    /\ req.op = "create_product" =>
           db.next_product_id + InFlight(req.op) <= MaxConcRows
    /\ req.op = "create_order" => db.next_order_id + InFlight(req.op) <= MaxConcRows
    /\ txn' = [txn EXCEPT ![c] = [op |-> req.op, a |-> req.a, b |-> req.b,
                                  data |-> req.data, snap |-> View(req, db)]]
    /\ UNCHANGED <<db, last>>

Finish(c) ==
    /\ txn[c].op # "idle"
    /\ LET r == Handle(txn[c], db)
       IN  /\ db' = r.db
           /\ last' = [op |-> txn[c].op, a |-> txn[c].a, b |-> txn[c].b,
                       data |-> txn[c].data, status |-> r.status,
                       delta |-> Delta(db, r.db)]
    /\ txn' = [txn EXCEPT ![c] = Idle]

NextConc ==
    \/ \E c \in Clients, req \in Requests : Begin(c, req)
    \/ \E c \in Clients : Finish(c)
SpecConc == Init /\ [][NextConc]_vars

(***************************************************************************)
(* Properties.                                                             *)
(***************************************************************************)
Emails(d) == {u.email : u \in d.users}
Attached(d, o, p) == <<o, p>> \in Rows(d)
Accepted(status) == status \in {OK, CREATED}

C2_AttachIdempotent ==
    [][/\ (/\ last'.op = "add_product_to_order"
           /\ last'.a \in Ids(db.orders)
           /\ last'.b \in Ids(db.products)
           /\ Attached(db, last'.a, last'.b))
          => (last'.status = OK /\ db' = db)
       /\ \A r \in Rows(db') : RowCount(db', r) = 1
       /\ \A o \in Ids(db'.orders) :
             \A p \in DOMAIN get_products_for_order(db', o) :
                get_products_for_order(db', o)[p] = 1]_vars

C2_Witness ==
    /\ last.op = "add_product_to_order"
    /\ last.status = OK
    /\ last.delta.order_product = 0
    /\ RowCount(db, <<last.a, last.b>>) = 1

\* C3: deleting an existing user removes that user, exactly the orders
\* whose user_id it is and exactly the association rows of those orders;
\* the other users, orders and association rows, and all products, stay.
C3_DeleteUserCascade ==
    [][(last'.op = "delete_user" /\ last'.a \in Ids(db.users))
       => LET mine == {o \in db.orders : o.user_id = last'.a}
          IN  /\ last'.status = OK
              /\ db'.users = {u \in db.users : u.id # last'.a}
              /\ db'.orders = db.orders \ mine
              /\ db'.order_product =
                    Without(db.order_product, {r \in Rows(db) : r[1] \in Ids(mine)})
              /\ db'.products = db.products]_vars

\* a user with an order and an association row was deleted, and another
\* user's order, with its association row, is still there
C3_Witness ==
    /\ last.op = "delete_user"
    /\ last.status = OK
    /\ last.delta.orders < 0
    /\ last.delta.order_product < 0
    /\ \E o \in db.orders : \E r \in Rows(db) : r[1] = o.id

\* C8: detaching from an existing order an existing product is answered
\* 200; it changes nothing when the product is not attached and removes
\* exactly the row (o, p) when it is.
C8_DetachExact ==
    [][(/\ last'.op = "remove_product_from_order"
        /\ last'.a \in Ids(db.orders)
        /\ last'.b \in Ids(db.products))
       => /\ last'.status = OK
          /\ IF Attached(db, last'.a, last'.b)
             THEN db' = [db EXCEPT !.order_product =
                            Without(@, {<<last'.a, last'.b>>})]
             ELSE db' = db]_vars

\* a row was removed and another row is still there
C8_Witness ==
    /\ last.op = "remove_product_from_order"
    /\ last.status = OK
    /\ last.delta.order_product = 0 - 1
    /\ ~Attached(db, last.a, last.b)
    /\ Rows(db) # {}

\* the detach of a product that is not attached, answered 200
C8_NoOpReached ==
    /\ last.op = "remove_product_from_order"
    /\ last.status = OK
    /\ last.delta.order_product = 0
    /\ Rows(db) # {}

\* the requests that fail validation: a user or product body the schema
\* rejects (for an update, of an existing record), an order body with no
\* user_id or with an order_date that is not ISO text
FailsValidation(req, d) ==
    \/ req.op = "create_user" /\ ~UserSchemaValid(req.data, FALSE)
    \/ req.op = "update_user" /\ req.a \in Ids(d.users)
          /\ ~UserSchemaValid(req.data, TRUE)
    \/ req.op = "create_product" /\ ~ProductSchemaValid(req.data, FALSE)
    \/ req.op = "update_product" /\ req.a \in Ids(d.products)
          /\ ~ProductSchemaValid(req.data, TRUE)
    \/ req.op = "create_order" /\ ~Has(req.data, "user_id")
    \/ req.op = "create_order" /\ Has(req.data, "user_id")
          /\ req.data.user_id \in Ids(d.users)
          /\ TruthyText(req.data, "order_date") /\ ~IsIsoFormat(req.data.order_date)

\* C5: a request that fails validation is answered 400 and leaves the
\* store as it was.
C5_ValidationBadRequest ==
    [][FailsValidation(last', db) => (last'.status = BAD_REQUEST /\ db' = db)]_vars

\* what the code does keep of C5: such a request changes nothing, and it is
\* answered 400 by create_order, 500 by the user and product handlers
C5_ValidationRejected ==
    [][FailsValidation(last', db)
       => /\ db' = db
          /\ last'.status = IF last'.op = "create_order"
                            THEN BAD_REQUEST ELSE SERVER_ERROR]_vars

\* C6: create_order with a user_id that is the id of no user is answered
\* 404 and creates no order; it is answered 201 only when the user exists,
\* and the order it creates has no product attached.
C6_OrderNeedsUser ==
    [][last'.op = "create_order"
       => /\ (Has(last'.data, "user_id") /\ last'.data.user_id \notin Ids(db.users))
                => (last'.status = NOT_FOUND /\ db' = db)
          /\ last'.status = CREATED
                => /\ last'.data.user_id \in Ids(db.users)
                   /\ \E o \in db'.orders :
                         /\ db'.orders = db.orders \cup {o}
                         /\ o.id \notin Ids(db.orders)
                         /\ o.user_id = last'.data.user_id
                         /\ DOMAIN get_products_for_order(db', o.id) = {}]_vars

\* what the code does keep of C6: the same with a user_id other than 0;
\* user_id 0 is answered 400
C6_OrderNeedsUserNonZero ==
    [][last'.op = "create_order"
       => /\ (Has(last'.data, "user_id") /\ last'.data.user_id \notin Ids(db.users))
                => /\ db' = db
                   /\ last'.status = IF last'.data.user_id = 0
                                     THEN BAD_REQUEST ELSE NOT_FOUND
          /\ last'.status = CREATED
                => /\ last'.data.user_id \in Ids(db.users)
                   /\ \E o \in db'.orders :
                         /\ db'.orders = db.orders \cup {o}
                         /\ o.id \notin Ids(db.orders)
                         /\ o.user_id = last'.data.user_id
                         /\ DOMAIN get_products_for_order(db', o.id) = {}]_vars

\* C7: an update of an existing user that passes validation and sets the
\* email to that of a different user is answered 409 and persists nothing,
\* whatever name and address it carries.
C7_UpdateEmailConflict ==
    [][(/\ last'.op = "update_user"
        /\ last'.a \in Ids(db.users)
        /\ UserSchemaValid(last'.data, TRUE)
        /\ Has(last'.data, "email")
        /\ \E u \in db.users : u.id # last'.a /\ u.email = last'.data.email)
       => (last'.status = CONFLICT /\ db' = db)]_vars

\* the rejected update carried a new name and a new address
C7_Witness ==
    /\ last.op = "update_user"
    /\ last.status = CONFLICT
    /\ last.a \in Ids(db.users)
    /\ Has(last.data, "name") /\ last.data.name # Row(db.users, last.a).name
    /\ Has(last.data, "address")
    /\ last.data.address # Row(db.users, last.a).address

Answers(c) == txn[c].op # "idle" /\ txn'[c].op = "idle"
AttachPassedCheck(c) ==
    /\ txn[c].op = "add_product_to_order"
    /\ txn[c].a \in Ids(txn[c].snap.orders)
    /\ txn[c].b \in Ids(txn[c].snap.products)
    /\ ~Attached(txn[c].snap, txn[c].a, txn[c].b)

\* C4: of the attach requests for the same order and product that all pass
\* the 'already in order' check before any commits, the one to commit first
\* is answered 200 and inserts the row, each later one is answered 409 and
\* changes nothing, and the store holds exactly one row for the pair.
C4_ConcurrentAttach ==
    [][\A c \in Clients :
          (/\ Answers(c)
           /\ AttachPassedCheck(c)
           /\ txn[c].a \in Ids(db.orders)
           /\ txn[c].b \in Ids(db.products))
          => /\ RowCount(db', <<txn[c].a, txn[c].b>>) = 1
             /\ IF Attached(db, txn[c].a, txn[c].b)
                THEN last'.status = CONFLICT /\ db' = db
                ELSE /\ last'.status = OK
                     /\ db' = [db EXCEPT !.order_product =
                                  @ (+) SetToBag({<<txn[c].a, txn[c].b>>})]]_vars

\* the second of two racing attaches was answered 409, with one row stored
C4_Witness ==
    /\ last.op = "add_product_to_order"
    /\ last.status = CONFLICT
    /\ RowCount(db, <<last.a, last.b>>) = 1

\* C10: every order's user_id is the id of a user, and every association
\* row's order_id and product_id are the ids of an order and of a product.
C10_ReferentialIntegrity ==
    /\ \A o \in db.orders : \E u \in db.users : u.id = o.user_id
    /\ \A r \in Rows(db) :
          /\ \E o \in db.orders : o.id = r[1]
          /\ \E p \in db.products : p.id = r[2]

\* a product attached to an order was deleted, with its association row
C10_Witness ==
    /\ last.op = "delete_product"
    /\ last.status = OK
    /\ last.delta.order_product < 0
    /\ db.orders # {}

\* a commit the foreign keys refused: an order for a user, or a row for an
\* order or a product, that a concurrent request had deleted
C10_RefusedReached ==
    /\ last.op \in {"create_order", "add_product_to_order"}
    /\ last.status \in {SERVER_ERROR, CONFLICT}
    /\ last.op = "create_order" => last.data.user_id \notin Ids(db.users)
    /\ last.op = "add_product_to_order" =>
          last.a \notin Ids(db.orders) \/ last.b \notin Ids(db.products)

====
